---- MODULE Spec2Model ----
(***************************************************************************)
(* Model of src/src/email_client/server.py: the tool dispatcher            *)
(* handle_call_tool, the offloaded IMAP/SMTP calls it awaits, and the      *)
(* search-criteria builder.                                                *)
(*                                                                         *)
(* One asyncio event loop runs the invocations (tasks).  An action of the  *)
(* loop is one run of a coroutine from one suspension point to the next:   *)
(* the code between two awaits executes without interleaving on the loop   *)
(* thread.  Calls handed to run_in_executor execute on worker threads and  *)
(* complete in their own action.  Every network call is recorded in the    *)
(* log of the task that made it, with the thread it executed on.           *)
(***************************************************************************)
EXTENDS Integers, Sequences, FiniteSets, TLC

VARIABLES
    today,      \* the calendar date datetime.now() reports
    pc,         \* per task: "idle", "await_send", "await_search", "await_fetch", "await_count", "done"
    name,       \* per task: the tool name of the invocation
    args,       \* per task: the arguments of the invocation
    mail,       \* per task: the session bound to the local `mail`, 0 when unbound
    net,        \* per task: the network calls made so far, in order
    loc,        \* per task: the coroutine's local variables
    result,     \* per task: what the invocation returned
    primary,    \* per task: the value of the return statement reached in the try
                \* block or its handlers, before the finally clause ran
    timedOut,   \* per task: the operations whose deadline expired, with the day counted
                \* and whether the worker's call was still running at expiry
    smtp,       \* per task: the submission-protocol commands of send_sync
    defaultEmail, \* EMAIL_CONFIG["default_email"], "" when DEFAULT_EMAIL is not set
    nextSess    \* the next fresh session identity

vars == <<today, pc, name, args, mail, net, loc, result, primary, timedOut, smtp,
          defaultEmail, nextSess>>

Tasks == {"t1", "t2"}

\* The largest number of ids one search reports.
MaxIds == 2

\* MAX_EMAILS: the cap on the ids search_emails_async fetches.
MAX_EMAILS == 100

-----------------------------------------------------------------------------
(* Calendar dates: datetime, timedelta, strptime and strftime.             *)

Date(y, m, d) == [y |-> y, m |-> m, d |-> d]

\* Python's None (and a missing key) for a date argument.
NoDate == Date(0, 0, 0)

IsLeap(y) == (y % 4 = 0 /\ y % 100 # 0) \/ y % 400 = 0

DaysInMonth(y, m) ==
    IF m = 2 THEN (IF IsLeap(y) THEN 29 ELSE 28)
    ELSE IF m \in {4, 6, 9, 11} THEN 30 ELSE 31

\* datetime.strptime(s, "%Y-%m-%d") raises ValueError unless s names a day of the calendar.
ValidDateString(s) ==
    /\ s.y \in 1..9999
    /\ s.m \in 1..12
    /\ s.d \in 1..DaysInMonth(s.y, s.m)

Strptime(s) == Date(s.y, s.m, s.d)

MonthAbbr == <<"Jan", "Feb", "Mar", "Apr", "May", "Jun",
               "Jul", "Aug", "Sep", "Oct", "Nov", "Dec">>

\* dt.strftime("%d-%b-%Y"): the text "dd-Mon-yyyy" as its three fields.
Strftime(dt) == <<dt.d, MonthAbbr[dt.m], dt.y>>

\* dt.strftime("%Y-%m-%d")
StrftimeIso(dt) == <<dt.y, dt.m, dt.d>>

NextDay(dt) ==
    IF dt.d < DaysInMonth(dt.y, dt.m) THEN Date(dt.y, dt.m, dt.d + 1)
    ELSE IF dt.m < 12 THEN Date(dt.y, dt.m + 1, 1)
    ELSE Date(dt.y + 1, 1, 1)

PrevDay(dt) ==
    IF dt.d > 1 THEN Date(dt.y, dt.m, dt.d - 1)
    ELSE IF dt.m > 1 THEN Date(dt.y, dt.m - 1, DaysInMonth(dt.y, dt.m - 1))
    ELSE Date(dt.y - 1, 12, 31)

\* dt + timedelta(days=n)
RECURSIVE AddDays(_, _)
AddDays(dt, n) ==
    IF n = 0 THEN dt
    ELSE IF n > 0 THEN AddDays(NextDay(dt), n - 1)
    ELSE AddDays(PrevDay(dt), n + 1)

\* datetime comparison a <= b
\* current_date < end_date
DateLt(a, b) ==
    \/ a.y < b.y
    \/ a.y = b.y /\ a.m < b.m
    \/ a.y = b.y /\ a.m = b.m /\ a.d < b.d

DateLeq(a, b) ==
    \/ a.y < b.y
    \/ a.y = b.y /\ a.m < b.m
    \/ a.y = b.y /\ a.m = b.m /\ a.d <= b.d

-----------------------------------------------------------------------------
(* Exceptions and results.                                                 *)

Exc(cls, msg) == [cls |-> cls, msg |-> msg, detail |-> {}]

\* The classes that derive from Exception (asyncio.TimeoutError is the builtin
\* TimeoutError, a subclass of OSError).
ExceptionClasses ==
    {"Exception", "ValueError", "KeyError", "TypeError", "UnboundLocalError",
     "OSError", "TimeoutError", "IMAP4.error", "SMTPException"}

IsException(e) == e.cls \in ExceptionClasses
IsTimeoutError(e) == e.cls = "TimeoutError"

NoResult == [type |-> "none", text |-> "", data |-> <<>>]
Text(text, data) == [type |-> "text", text |-> text, data |-> data]
Raised(e) == [type |-> "raised", text |-> e.cls, data |-> <<e.msg>>]

RecipientRequiredText == "At least one recipient email address is required."
SendOkText == "Email sent successfully from "
SendTimeoutText == "Operation timed out while sending email."
SendFailedText == "Failed to send email: "
NoEmailsText == "No emails found matching the criteria."
FoundText == "Found emails:"
SearchTimeoutText == "Search operation timed out. Please try with a more specific search criteria."
EmailIdRequiredText == "Email ID is required."
ContentText == "From: "
FetchTimeoutText == "Operation timed out while fetching email content."
CountsText == "Daily email counts:"
ErrorText == "Error: "

-----------------------------------------------------------------------------
(* The search predicate of search-emails.                                  *)

NoDateText == <<0, "", 0>>

\* A predicate: the date clause (ON d1, or SINCE d1 BEFORE d2) and the keyword
\* that wraps it, "" when there is none.
Criteria(kw, op, d1, d2) == [kw |-> kw, op |-> op, d1 |-> d1, d2 |-> d2]
NoCriteria == Criteria("", "", NoDateText, NoDateText)
NoExc == Exc("", "")

Built(c) == [ok |-> TRUE, crit |-> c, exc |-> NoExc]
Failed(e) == [ok |-> FALSE, crit |-> NoCriteria, exc |-> e]

\* NextDayText without the added day.
NextDayTextSameDay(end_date_obj) == Strftime(end_date_obj)

\* next_day = (end_date_obj + timedelta(days=1)).strftime("%d-%b-%Y")
NextDayText(end_date_obj) == Strftime(AddDays(end_date_obj, 1))

\* The date clause: start_date and end_date are the formatted texts; end_date_obj
\* is bound only when the end_date argument was given.
DateCriteria(kw, start_date, end_date, endGiven, end_date_obj) ==
    IF start_date = end_date
    THEN Built(Criteria(kw, "ON", start_date, NoDateText))
    ELSE IF ~endGiven
    THEN Failed(Exc("UnboundLocalError", "end_date_obj"))
    ELSE Built(Criteria(kw, "SINCE", start_date, NextDayText(end_date_obj)))

\* The dates and the predicate of search-emails; now1 and now2 are the two
\* readings of datetime.now().
BuildCriteria(a, now1, now2) ==
    LET startGiven == a.start_date # NoDate
        endGiven == a.end_date # NoDate
    IN  IF startGiven /\ ~ValidDateString(a.start_date)
        THEN Failed(Exc("ValueError", "start_date"))
        ELSE IF endGiven /\ ~ValidDateString(a.end_date)
        THEN Failed(Exc("ValueError", "end_date"))
        ELSE LET start_date == IF startGiven
                               THEN Strftime(Strptime(a.start_date))
                               ELSE Strftime(AddDays(now1, -7))
                 end_date == IF endGiven
                             THEN Strftime(Strptime(a.end_date))
                             ELSE Strftime(now2)
             IN  DateCriteria(a.keyword, start_date, end_date, endGiven,
                              Strptime(a.end_date))

\* The predicate of one day of count-daily-emails: (ON "<date_str>").
CountCriteria(current_date) == Criteria("", "ON", Strftime(current_date), NoDateText)

\* The mailbox search-emails selects.
Mailbox(folder) == IF folder = "sent" THEN "[Gmail]/Sent Mail" ELSE "inbox"

-----------------------------------------------------------------------------
(* Messages and format_email_content.                                      *)

\* A MIME part: its content type, the text of its payload, whether the bytes
\* of the payload decode as UTF-8 (ok), and its sub-parts when it is a
\* multipart container. A message is its root part.
Part(ctype, text, ok, kids) == [ctype |-> ctype, text |-> text, ok |-> ok, kids |-> kids]
Leaf(ctype, text, ok) == Part(ctype, text, ok, <<>>)
NoMsg == Leaf("", "", TRUE)

\* msg.walk(): the part itself, then its sub-parts, depth first in document order.
RECURSIVE Walk(_), WalkAll(_)
Walk(part) == <<part>> \o WalkAll(part.kids)
WalkAll(kids) == IF kids = <<>> THEN <<>> ELSE Walk(Head(kids)) \o WalkAll(Tail(kids))

\* msg.is_multipart()
IsMultipart(msg) == msg.kids # <<>>

\* The outcome of building the body: the text, or the UnicodeDecodeError of
\* part.get_payload(decode=True).decode().
Body(text) == [raised |-> FALSE, body |-> text]
DecodeError == [raised |-> TRUE, body |-> ""]
Decode(part) == IF part.ok THEN Body(part.text) ELSE DecodeError

\* The for loop over msg.walk() from part i on, body being the text so far.
RECURSIVE ScanParts(_, _, _)
ScanParts(parts, i, body) ==
    IF i > Len(parts) THEN Body(body)
    ELSE IF parts[i].ctype = "text/plain" THEN Decode(parts[i])
    ELSE IF parts[i].ctype = "text/html" /\ body = ""
    THEN IF Decode(parts[i]).raised THEN DecodeError
         ELSE ScanParts(parts, i + 1, Decode(parts[i]).body)
    ELSE ScanParts(parts, i + 1, body)

\* format_email_content: the body of the message, or the exception raised.
FormatEmailContent(msg) ==
    IF IsMultipart(msg) THEN ScanParts(Walk(msg), 1, "") ELSE Decode(msg)

\* The messages a fetch may return.
Leaves ==
    {Leaf("text/plain", "plain one", TRUE), Leaf("text/plain", "plain two", TRUE),
     Leaf("text/plain", "", TRUE), Leaf("text/plain", "", FALSE),
     Leaf("text/html", "html one", TRUE), Leaf("text/html", "", TRUE),
     Leaf("text/html", "", FALSE), Leaf("application/pdf", "", FALSE)}
AltLeaves ==
    {Leaf("text/plain", "plain one", TRUE), Leaf("text/html", "html one", TRUE),
     Leaf("text/html", "", FALSE)}
Alternatives == {Part("multipart/alternative", "", FALSE, <<a, b>>) : a, b \in AltLeaves}
Messages ==
    {Leaf("text/plain", "plain one", TRUE), Leaf("text/html", "html one", TRUE),
     Leaf("text/plain", "", FALSE)}
    \cup {Part("multipart/mixed", "", FALSE, <<a>>) : a \in Leaves \cup Alternatives}
    \cup {Part("multipart/mixed", "", FALSE, <<a, b>>) : a, b \in Leaves \cup Alternatives}
PlainMessage == Leaf("text/plain", "plain one", TRUE)

-----------------------------------------------------------------------------
(* Network calls.                                                          *)

\* One call: the command, its argument, the thread it executes on ("loop" is
\* the dispatcher's control thread), the session it is issued on (0 when it
\* has none) and its state: "running", "returned", "none" (a fetch that
\* returned no message) or "raised".
Cmd(op, arg, on, sess, st) ==
    [op |-> op, arg |-> arg, on |-> on, sess |-> sess, st |-> st,
     ids |-> <<>>, exc |-> NoExc, msg |-> NoMsg]

Outcomes == {"ok", "raise"}
St(o) == IF o = "ok" THEN "returned" ELSE "raised"

\* OuterExcept catching ValueError alone.
OuterExceptValueError(e) ==
    IF e.cls = "ValueError" THEN Text(ErrorText, <<e.msg>>) ELSE Raised(e)

\* What the outer handler returns for an exception raised inside the try.
OuterExcept(e) ==
    IF IsException(e) THEN Text(ErrorText, <<e.msg>>) ELSE Raised(e)

\* The finally clause: close and logout on the bound session, any exception
\* (the NameError of an unbound `mail` included) swallowed.
Release(log, m, co, lo) ==
    IF m = 0 THEN log
    ELSE IF co = "raise" THEN Append(log, Cmd("close", "", "loop", m, "raised"))
    ELSE log \o <<Cmd("close", "", "loop", m, "returned"),
                  Cmd("logout", "", "loop", m, St(lo))>>

\* ToMissing with the check left out.
ToMissingUnchecked(to) == FALSE

\* if not to_addresses
ToMissing(to) == to = <<>>

\* sender_email or EMAIL_CONFIG["default_email"] or EMAIL_CONFIG["username"]
EMAIL_USERNAME == "user@auth"
EMAIL_PASSWORD == "secret"
EMAIL_NAME == "Your Name"

\* FromEmail without the default send-as address.
FromEmailNoDefault(sender_email, default_email) ==
    IF sender_email # "" THEN sender_email ELSE EMAIL_USERNAME

FromEmail(sender_email, default_email) ==
    IF sender_email # "" THEN sender_email
    ELSE IF default_email # "" THEN default_email
    ELSE EMAIL_USERNAME

FromName(sender_name) == IF sender_name # "" THEN sender_name ELSE EMAIL_NAME

\* The handlers of the send path: asyncio.TimeoutError, then Exception.
SendExcept(e) ==
    IF IsTimeoutError(e) THEN Text(SendTimeoutText, <<>>)
    ELSE IF IsException(e) THEN Text(SendFailedText, <<e.msg, e.detail>>)
    ELSE Raised(e)

\* TimeoutResult with the deadline's TimeoutError reaching the generic handler.
TimeoutResultGeneric(p) == Text(ErrorText, <<"timeout">>)

\* What each awaiting operation returns when its deadline expires.
TimeoutResult(p) ==
    IF p = "await_send" THEN Text(SendTimeoutText, <<>>)
    ELSE IF p = "await_search" THEN Text(SearchTimeoutText, <<>>)
    ELSE Text(FetchTimeoutText, <<>>)

\* Abandoned with the worker's call stopped at expiry.
AbandonedStopped(job) == [job EXCEPT !.st = "cancelled"]

\* A worker's call when the deadline of the coroutine awaiting it expires:
\* the future is cancelled, the thread keeps executing the call.
Abandoned(job) == job

\* Truncate without the cap.
TruncateAll(ids) == ids

\* messages[0].split()[:MAX_EMAILS]
Truncate(ids) == SubSeq(ids, 1, IF Len(ids) < MAX_EMAILS THEN Len(ids) ELSE MAX_EMAILS)

\* format_email_summary: the row of one fetched message.
Summary(num) == [id |-> num]

\* One row of the daily table: the count, or the Timeout sentinel.
CountRow(current_date, count) ==
    [date |-> StrftimeIso(current_date), kind |-> "count", n |-> count]
\* A timeout recorded as a count of zero.
TimeoutRowAsCount(current_date) ==
    [date |-> StrftimeIso(current_date), kind |-> "count", n |-> 0]

TimeoutRow(current_date) ==
    [date |-> StrftimeIso(current_date), kind |-> "Timeout", n |-> 0]

-----------------------------------------------------------------------------
(* State.                                                                  *)

NoArgs ==
    [to |-> <<>>, cc |-> <<>>, sender_email |-> "", sender_name |-> "",
     start_date |-> NoDate, end_date |-> NoDate, keyword |-> "", folder |-> "",
     email_id |-> ""]

NoLoc ==
    [criteria |-> NoCriteria, phase |-> "", ids |-> <<>>, rows |-> <<>>,
     cur |-> NoDate, end |-> NoDate, job |-> 0, from |-> <<>>]

Todays == {Date(2024, 3, 1), Date(2024, 1, 1)}

Init ==
    /\ today \in Todays
    /\ defaultEmail \in {"", "default@x"}
    /\ pc = [t \in Tasks |-> "idle"]
    /\ name = [t \in Tasks |-> ""]
    /\ args = [t \in Tasks |-> NoArgs]
    /\ mail = [t \in Tasks |-> 0]
    /\ net = [t \in Tasks |-> <<>>]
    /\ loc = [t \in Tasks |-> NoLoc]
    /\ result = [t \in Tasks |-> NoResult]
    /\ primary = [t \in Tasks |-> NoResult]
    /\ timedOut = [t \in Tasks |-> {}]
    /\ smtp = [t \in Tasks |-> <<>>]
    /\ nextSess = 1

-----------------------------------------------------------------------------
(* The steps of handle_call_tool.                                          *)

\* MailOf with one `mail` shared by all invocations: the session bound last.
MailShared(t) == nextSess - 1

\* The session bound to the local variable `mail` of the invocation t, 0
\* while it is unbound.
MailOf(t) == mail[t]

\* Returned with the exceptions of the finally clause not swallowed: the
\* NameError of an unbound `mail`, or the error of close or logout, replaces
\* the value being returned.
ReturnedOrReleaseError(res, m, co, lo) ==
    IF m = 0 THEN Raised(Exc("NameError", "mail"))
    ELSE IF co = "raise" \/ lo = "raise" THEN Raised(Exc("IMAP4.error", "release"))
    ELSE res

\* What the caller receives when the return statement evaluated res and
\* close and logout on session m ended as co and lo: the try/except inside
\* the finally clause swallows whatever they raise.
Returned(res, m, co, lo) == res

\* The invocation returns res: the finally clause releases session m, then
\* the result is handed to the caller.
Return(t, res, log, m, l) ==
    \E co \in Outcomes, lo \in Outcomes :
        /\ pc' = [pc EXCEPT ![t] = "done"]
        /\ primary' = [primary EXCEPT ![t] = res]
        /\ result' = [result EXCEPT ![t] = Returned(res, m, co, lo)]
        /\ net' = [net EXCEPT ![t] = Release(log, m, co, lo)]
        /\ mail' = [mail EXCEPT ![t] = m]
        /\ loc' = [loc EXCEPT ![t] = l]

\* The invocation suspends at pc p on the call it appended last to log.
Await(t, p, log, m, l) ==
    /\ pc' = [pc EXCEPT ![t] = p]
    /\ result' = result
    /\ primary' = primary
    /\ net' = [net EXCEPT ![t] = log]
    /\ mail' = [mail EXCEPT ![t] = m]
    /\ loc' = [loc EXCEPT ![t] = [l EXCEPT !.job = Len(log)]]

\* loop.run_in_executor(None, ...): the call starts on a worker thread.
Submit(log, op, arg, m) == Append(log, Cmd(op, arg, "worker", m, "running"))

\* name == "send-email"
SendEmail(t, a) ==
    IF ToMissing(a.to)
    THEN Return(t, Text(RecipientRequiredText, <<>>), net[t], MailOf(t), loc[t])
    ELSE Await(t, "await_send",
               Submit(net[t], "send", a.to \o a.cc, 0), MailOf(t),
               [loc[t] EXCEPT !.from = <<FromName(a.sender_name),
                                         FromEmail(a.sender_email, defaultEmail)>>])

\* name == "search-emails", on the authenticated session m
SearchEmails(t, a, log, m) ==
    \E os \in Outcomes, now2 \in {today, NextDay(today)} :
        LET log1 == Append(log, Cmd("select", Mailbox(a.folder), "loop", m, St(os)))
            b == BuildCriteria(a, today, now2)
        IN  IF os = "raise"
            THEN Return(t, OuterExcept(Exc("IMAP4.error", "select")), log1, m, loc[t])
            ELSE IF ~b.ok
            THEN Return(t, OuterExcept(b.exc), log1, m, loc[t])
            ELSE Await(t, "await_search", Submit(log1, "search", b.crit, m), m,
                       [loc[t] EXCEPT !.criteria = b.crit, !.phase = "search"])

\* name == "get-email-content", on the authenticated session m
GetEmailContent(t, a, log, m) ==
    IF a.email_id = ""
    THEN Return(t, Text(EmailIdRequiredText, <<>>), log, m, loc[t])
    ELSE Await(t, "await_fetch", Submit(log, "fetch", a.email_id, m), m, loc[t])

\* One turn of the while loop of count-daily-emails, rows being the table so far.
CountLoop(t, current_date, end_date, rows, log, m) ==
    IF DateLeq(current_date, end_date)
    THEN Await(t, "await_count",
               Submit(log, "search", CountCriteria(current_date), m), m,
               [loc[t] EXCEPT !.criteria = CountCriteria(current_date),
                              !.cur = current_date, !.end = end_date, !.rows = rows])
    ELSE Return(t, Text(CountsText, rows), log, m, [loc[t] EXCEPT !.rows = rows])

\* name == "count-daily-emails", on the authenticated session m
CountDailyEmails(t, a, log, m) ==
    IF a.start_date = NoDate
    THEN Return(t, OuterExcept(Exc("KeyError", "start_date")), log, m, loc[t])
    ELSE IF ~ValidDateString(a.start_date)
    THEN Return(t, OuterExcept(Exc("ValueError", "start_date")), log, m, loc[t])
    ELSE IF a.end_date = NoDate
    THEN Return(t, OuterExcept(Exc("KeyError", "end_date")), log, m, loc[t])
    ELSE IF ~ValidDateString(a.end_date)
    THEN Return(t, OuterExcept(Exc("ValueError", "end_date")), log, m, loc[t])
    ELSE CountLoop(t, Strptime(a.start_date), Strptime(a.end_date), <<>>, log, m)

\* Every tool but send-email: connect and authenticate on the loop thread,
\* then dispatch on the name.
ReadTool(t, nm, a) ==
    \E oc \in Outcomes, ol \in Outcomes :
        LET s == nextSess
            log1 == Append(net[t], Cmd("connect", "imap_server", "loop",
                                       IF oc = "ok" THEN s ELSE 0, St(oc)))
            log2 == Append(log1, Cmd("login", EMAIL_USERNAME, "loop", s, St(ol)))
        IN  /\ nextSess' = IF oc = "ok" THEN s + 1 ELSE s
            /\ IF oc = "raise"
               THEN Return(t, OuterExcept(Exc("OSError", "connect")), log1, 0, loc[t])
               ELSE IF ol = "raise"
               THEN Return(t, OuterExcept(Exc("IMAP4.error", "login")), log2, s, loc[t])
               ELSE IF nm = "search-emails" THEN SearchEmails(t, a, log2, s)
               ELSE IF nm = "get-email-content" THEN GetEmailContent(t, a, log2, s)
               ELSE IF nm = "count-daily-emails" THEN CountDailyEmails(t, a, log2, s)
               ELSE Return(t, OuterExcept(Exc("ValueError", "Unknown tool")), log2, s, loc[t])

ToolNames ==
    {"send-email", "search-emails", "get-email-content", "count-daily-emails",
     "no-such-tool"}

\* The date arguments tried: absent, days on both sides of a month, a leap day
\* and a year boundary, and a text that names no day.
DateArgs ==
    {NoDate, Date(2023, 12, 30), Date(2023, 12, 31), Date(2024, 2, 23), Date(2024, 2, 28),
     Date(2024, 2, 29), Date(2024, 3, 1), Date(2024, 2, 30)}

\* The date arguments of count-daily-emails: ranges of at most three days.
CountDateArgs ==
    {NoDate, Date(2024, 2, 28), Date(2024, 2, 29), Date(2024, 3, 1), Date(2024, 2, 30)}

SendArgs ==
    {[NoArgs EXCEPT !.to = to, !.cc = cc, !.sender_email = se] :
        to \in {<<>>, <<"a@x">>}, cc \in {<<>>, <<"c@x">>}, se \in {"", "alias@x"}}
SearchArgs ==
    {[NoArgs EXCEPT !.start_date = sd, !.end_date = ed, !.keyword = kw, !.folder = f] :
        sd \in DateArgs, ed \in DateArgs, kw \in {"", "invoice"}, f \in {"", "sent"}}
GetArgs == {[NoArgs EXCEPT !.email_id = id] : id \in {"", "7"}}
CountArgs ==
    {[NoArgs EXCEPT !.start_date = sd, !.end_date = ed] :
        sd \in CountDateArgs, ed \in CountDateArgs}

ArgsOf(nm) ==
    IF nm = "send-email" THEN SendArgs
    ELSE IF nm = "search-emails" THEN SearchArgs
    ELSE IF nm = "get-email-content" THEN GetArgs
    ELSE IF nm = "count-daily-emails" THEN CountArgs
    ELSE {NoArgs}

\* handle_call_tool(name, arguments), up to its first suspension or its return.
CallTool(t, nm, a) ==
    /\ pc[t] = "idle"
    /\ name' = [name EXCEPT ![t] = nm]
    /\ args' = [args EXCEPT ![t] = a]
    /\ IF nm = "send-email"
       THEN SendEmail(t, a) /\ nextSess' = nextSess
       ELSE ReadTool(t, nm, a)
    /\ UNCHANGED <<today, timedOut, smtp, defaultEmail>>

-----------------------------------------------------------------------------
(* Worker threads.                                                         *)

SmtpCmd(op, arg, st) == [op |-> op, arg |-> arg, st |-> st, rejected |-> {}]

Range(seq) == {seq[i] : i \in 1..Len(seq)}

\* How far send_sync gets: the failing step, "rejected" when send_message
\* reports refused recipients, "ok" when it reports none.
SendOutcomes ==
    {"connect", "connect_timeout", "starttls", "login", "send_message", "rejected", "ok"}

\* The commands send_sync issues for one outcome; rej is the set send_message
\* reports as refused.
SendSync(from_email, all_recipients, o, rej) ==
    LET c == SmtpCmd("connect", "smtp_server", "returned")
        s == SmtpCmd("starttls", "", "returned")
        l == SmtpCmd("login", <<EMAIL_USERNAME, EMAIL_PASSWORD>>, "returned")
        m == SmtpCmd("send_message", <<from_email, all_recipients>>, "returned")
    IN  IF o \in {"connect", "connect_timeout"} THEN <<[c EXCEPT !.st = "raised"]>>
        ELSE IF o = "starttls" THEN <<c, [s EXCEPT !.st = "raised"]>>
        ELSE IF o = "login" THEN <<c, s, [l EXCEPT !.st = "raised"]>>
        ELSE IF o = "send_message" THEN <<c, s, l, [m EXCEPT !.st = "raised"]>>
        ELSE IF o = "rejected" THEN <<c, s, l, [m EXCEPT !.rejected = rej]>>
        ELSE <<c, s, l, m>>

\* str(e) of the exception raised for the refused recipients rej.
RejectedText == "Failed to send to some recipients: "
Rejected(rej) == [Exc("Exception", RejectedText) EXCEPT !.detail = rej]

\* SendSyncExc with refused recipients reported as a failed send_message.
SendSyncExcGeneric(o, rej) ==
    IF o = "ok" THEN NoExc
    ELSE IF o = "connect_timeout" THEN Exc("TimeoutError", "connect")
    ELSE IF o = "connect" THEN Exc("OSError", "connect")
    ELSE IF o = "rejected" THEN Exc("SMTPException", "send_message")
    ELSE Exc("SMTPException", o)

\* The exception send_sync ends with, NoExc when it returns.
SendSyncExc(o, rej) ==
    IF o = "ok" THEN NoExc
    ELSE IF o = "rejected" THEN Rejected(rej)
    ELSE IF o = "connect_timeout" THEN Exc("TimeoutError", "connect")
    ELSE IF o = "connect" THEN Exc("OSError", "connect")
    ELSE Exc("SMTPException", o)

\* The call k of task t completes on its worker thread, whether or not the
\* coroutine that started it is still waiting for it; n is the number of ids
\* the mailbox reports to a search and msg the message it returns to a fetch.
WorkerComplete(t, k, n, msg) ==
    LET job == net[t][k] IN
    /\ job.on = "worker"
    /\ job.st = "running"
    /\ \/ /\ job.op = "search"
          /\ net' = [net EXCEPT ![t][k] =
                        [job EXCEPT !.st = "returned", !.ids = [i \in 1..n |-> i]]]
          /\ smtp' = smtp
       \/ /\ job.op = "fetch"
          /\ \/ net' = [net EXCEPT ![t][k] = [job EXCEPT !.st = "returned", !.msg = msg]]
             \/ net' = [net EXCEPT ![t][k] = [job EXCEPT !.st = "none"]]
          /\ smtp' = smtp
       \/ /\ job.op \in {"search", "fetch"}
          /\ net' = [net EXCEPT ![t][k] =
                        [job EXCEPT !.st = "raised", !.exc = Exc("IMAP4.error", job.op)]]
          /\ smtp' = smtp
       \/ /\ job.op = "send"
          /\ \E o \in SendOutcomes, rej \in SUBSET Range(job.arg) :
                /\ o = "rejected" => rej # {} /\ rej # Range(job.arg)
                /\ o # "rejected" => rej = {}
                /\ net' = [net EXCEPT ![t][k] =
                              [job EXCEPT !.st = IF SendSyncExc(o, rej) = NoExc
                                                     THEN "returned" ELSE "raised",
                                          !.exc = SendSyncExc(o, rej)]]
                /\ smtp' = [smtp EXCEPT ![t] = SendSync(loc[t].from[2], job.arg, o, rej)]
    /\ UNCHANGED <<today, pc, name, args, mail, loc, result, primary, timedOut,
                   defaultEmail, nextSess>>

-----------------------------------------------------------------------------
(* The loop resumes a suspended invocation.                                *)

\* search_emails_async after one of its awaits completed with job.
SearchResumed(t, job) ==
    LET l == loc[t]
        wrapped == Exc("Exception", "Error searching emails")
    IN  IF job.st = "raised" \/ job.st = "none"
        THEN Return(t, OuterExcept(wrapped), net[t], MailOf(t), l)
        ELSE IF l.phase = "search"
        THEN IF job.ids = <<>>
             THEN Return(t, Text(NoEmailsText, <<>>), net[t], MailOf(t), l)
             ELSE Await(t, "await_search",
                        Submit(net[t], "fetch", Truncate(job.ids)[1], MailOf(t)), MailOf(t),
                        [l EXCEPT !.phase = "fetch", !.ids = Truncate(job.ids)])
        ELSE LET rows == Append(l.rows, Summary(job.arg))
             IN  IF Len(rows) < Len(l.ids)
                 THEN Await(t, "await_search",
                            Submit(net[t], "fetch", l.ids[Len(rows) + 1], MailOf(t)), MailOf(t),
                            [l EXCEPT !.rows = rows])
                 ELSE Return(t, Text(FoundText, rows), net[t], MailOf(t),
                             [l EXCEPT !.rows = rows])

\* get_email_content_async after its await completed with job.
FetchResumed(t, job) ==
    IF job.st = "returned" /\ ~FormatEmailContent(job.msg).raised
    THEN Return(t, Text(ContentText, <<FormatEmailContent(job.msg).body>>),
                net[t], MailOf(t), loc[t])
    ELSE Return(t, OuterExcept(Exc("Exception", "Error fetching email content")),
                net[t], MailOf(t), loc[t])

\* count_emails_async after its await completed with job.
CountResumed(t, job) ==
    IF job.st = "returned"
    THEN CountLoop(t, AddDays(loc[t].cur, 1), loc[t].end,
                   Append(loc[t].rows, CountRow(loc[t].cur, Len(job.ids))),
                   net[t], MailOf(t))
    ELSE Return(t, OuterExcept(Exc("Exception", "Error counting emails")),
                net[t], MailOf(t), loc[t])

\* send_email_async after its await completed with job.
SendResumed(t, job) ==
    IF job.st = "returned"
    THEN Return(t, Text(SendOkText, loc[t].from), net[t], MailOf(t), loc[t])
    ELSE Return(t, SendExcept(job.exc), net[t], MailOf(t), loc[t])

\* Completed for a call that is still running.
CompletedOrRunning(job) == TRUE

\* await loop.run_in_executor(...): the future of the call is done.
Completed(job) == job.st # "running"

\* The call the invocation awaits has completed: the coroutine runs on to its
\* next suspension or to its return.
Resume(t) ==
    /\ pc[t] \in {"await_send", "await_search", "await_fetch", "await_count"}
    /\ LET job == net[t][loc[t].job] IN
        /\ Completed(job)
        /\ IF pc[t] = "await_send" THEN SendResumed(t, job)
           ELSE IF pc[t] = "await_search" THEN SearchResumed(t, job)
           ELSE IF pc[t] = "await_fetch" THEN FetchResumed(t, job)
           ELSE CountResumed(t, job)
    /\ UNCHANGED <<today, name, args, timedOut, smtp, defaultEmail, nextSess>>

\* The SEARCH_TIMEOUT deadline of the asyncio.timeout block the invocation is
\* suspended in expires: TimeoutError is raised in the coroutine.
Timeout(t) ==
    /\ pc[t] \in {"await_send", "await_search", "await_fetch", "await_count"}
    /\ LET job == net[t][loc[t].job]
           log == [net[t] EXCEPT ![loc[t].job] = Abandoned(job)]
       IN  /\ timedOut' = [timedOut EXCEPT ![t] =
                              @ \cup {[op |-> pc[t], at |-> loc[t].cur,
                                       running |-> job.st = "running"]}]
           /\ IF pc[t] = "await_count"
              THEN CountLoop(t, AddDays(loc[t].cur, 1), loc[t].end,
                             Append(loc[t].rows, TimeoutRow(loc[t].cur)), log, MailOf(t))
              ELSE Return(t, TimeoutResult(pc[t]), log, MailOf(t), loc[t])
    /\ UNCHANGED <<today, name, args, smtp, defaultEmail, nextSess>>

\* One invocation, every tool and argument set.
Next ==
    \E t \in {"t1"} :
        \/ \E nm \in ToolNames : \E a \in ArgsOf(nm) : CallTool(t, nm, a)
        \/ \E k \in 1..Len(net[t]), n \in 0..MaxIds,
              msg \in IF name[t] = "get-email-content" THEN Messages ELSE {PlainMessage} :
                WorkerComplete(t, k, n, msg)
        \/ Resume(t)
        \/ Timeout(t)

Spec == Init /\ [][Next]_vars

\* Two concurrent invocations on the one event loop, each with one argument
\* set per tool.
PairArgsOf(nm) ==
    IF nm = "send-email" THEN {[NoArgs EXCEPT !.to = <<"a@x">>]}
    ELSE IF nm = "search-emails"
    THEN {[NoArgs EXCEPT !.start_date = Date(2024, 2, 29), !.end_date = Date(2024, 3, 1)]}
    ELSE IF nm = "get-email-content" THEN {[NoArgs EXCEPT !.email_id = "7"]}
    ELSE IF nm = "count-daily-emails"
    THEN {[NoArgs EXCEPT !.start_date = Date(2024, 2, 29), !.end_date = Date(2024, 3, 1)]}
    ELSE {NoArgs}

InitPair == Init /\ today = Date(2024, 3, 1) /\ defaultEmail = ""

NextPair ==
    \E t \in Tasks :
        \/ \E nm \in ToolNames : \E a \in PairArgsOf(nm) : CallTool(t, nm, a)
        \/ \E k \in 1..Len(net[t]), n \in {0, 2} :
                WorkerComplete(t, k, n, PlainMessage)
        \/ Resume(t)
        \/ Timeout(t)

SpecPair == InitPair /\ [][NextPair]_vars

\* One search-emails invocation on a mailbox that reports about MAX_EMAILS
\* ids, from one below the cap to MaxIds above it.
CapArgs == {[NoArgs EXCEPT !.start_date = Date(2024, 2, 29), !.end_date = Date(2024, 3, 1)]}
CapCounts == (MAX_EMAILS - 1)..(MAX_EMAILS + MaxIds)

InitCap == Init /\ today = Date(2024, 3, 1) /\ defaultEmail = ""

NextCap ==
    \E t \in {"t1"} :
        \/ \E a \in CapArgs : CallTool(t, "search-emails", a)
        \/ \E k \in 1..Len(net[t]), n \in CapCounts :
                WorkerComplete(t, k, n, PlainMessage)
        \/ Resume(t)
        \/ Timeout(t)

SpecCap == InitCap /\ [][NextCap]_vars

-----------------------------------------------------------------------------
(* Properties.                                                             *)

Done(t) == pc[t] = "done"
Calls(t) == 1..Len(net[t])
ReadPath(t) == name[t] \in {"search-emails", "get-email-content", "count-daily-emails"}

\* The message was handed to the submission server: send_message returned.
Delivered(t) ==
    \E k \in 1..Len(smtp[t]) : smtp[t][k].op = "send_message" /\ smtp[t][k].st = "returned"

\* C1: every invocation that has returned, whatever the tool name, the
\* arguments and the outcomes of its network calls, returned a text result;
\* no exception left handle_call_tool.
C1_AlwaysTextResult ==
    \A t \in Tasks :
        /\ Done(t) => result[t].type = "text"
        /\ ~Done(t) => result[t] = NoResult

\* C1 witness: an invocation whose authentication failed returned the error text.
C1_Witness ==
    \E t \in Tasks :
        /\ Done(t)
        /\ \E k \in Calls(t) : net[t][k].op = "login" /\ net[t][k].st = "raised"
        /\ result[t].text = ErrorText

\* C2 (as claimed): a read-path invocation that opened a session has
\* attempted both the close and the logout on it when it returns.
C2_ReleaseAttempted ==
    \A t \in Tasks :
        (Done(t) /\ ReadPath(t) /\ MailOf(t) # 0) =>
            /\ \E k \in Calls(t) : net[t][k].op = "close" /\ net[t][k].sess = MailOf(t)
            /\ \E k \in Calls(t) : net[t][k].op = "logout" /\ net[t][k].sess = MailOf(t)

\* C3 (as claimed): on a read path every search, fetch or count command is
\* preceded, on its session, by connect, then login, then select.
C3_SelectedBeforeCommands ==
    \A t \in Tasks : \A k \in Calls(t) :
        (ReadPath(t) /\ net[t][k].op \in {"search", "fetch"}) =>
            \E c \in Calls(t), l \in Calls(t), s \in Calls(t) :
                /\ c < l /\ l < s /\ s < k
                /\ net[t][c].op = "connect" /\ net[t][c].sess = net[t][k].sess
                /\ net[t][l].op = "login" /\ net[t][l].sess = net[t][k].sess
                /\ net[t][s].op = "select" /\ net[t][s].sess = net[t][k].sess

\* C4 (as claimed): no network call of an invocation executes on the
\* dispatcher's control thread; each runs on a worker.
C4_NoBlockingCallOnLoop ==
    \A t \in Tasks : \A k \in Calls(t) : net[t][k].on = "worker"

\* The row of day d in the table an invocation returned is the Timeout sentinel.
TimeoutRowFor(t, d) ==
    \E i \in 1..Len(result[t].data) :
        /\ result[t].data[i].date = StrftimeIso(d)
        /\ result[t].data[i].kind = "Timeout"

\* What the invocation returned for the search, fetch-by-id or send whose
\* deadline expired while the worker's call was running: its timeout message.
SingleTimeoutOutcome(t) ==
    \A x \in timedOut[t] :
        x.running =>
            /\ x.op = "await_send" => result[t] = Text(SendTimeoutText, <<>>)
            /\ x.op = "await_search" => result[t] = Text(SearchTimeoutText, <<>>)
            /\ x.op = "await_fetch" => result[t] = Text(FetchTimeoutText, <<>>)

\* C5 (as claimed): when the deadline of a search, fetch-by-id, per-day count
\* or send expires with the worker's call still running, the invocation
\* returns that operation's timeout outcome: the timeout message, or for a
\* count the table with the Timeout row of that day.
C5_TimeoutOutcome ==
    \A t \in Tasks :
        Done(t) =>
            /\ SingleTimeoutOutcome(t)
            /\ \A x \in timedOut[t] :
                (x.running /\ x.op = "await_count") =>
                    result[t].text = CountsText /\ TimeoutRowFor(t, x.at)

\* C5 (amended): as claimed for search, fetch-by-id and send; for a per-day
\* count the returned table has the Timeout row of that day, unless the query
\* of a later day raised, and then the invocation returns the generic error
\* text without any row.
C5_TimeoutOutcomeAmended ==
    \A t \in Tasks :
        Done(t) =>
            /\ SingleTimeoutOutcome(t)
            /\ \A x \in timedOut[t] :
                (x.running /\ x.op = "await_count") =>
                    \/ result[t].text = CountsText /\ TimeoutRowFor(t, x.at)
                    \/ /\ result[t] = Text(ErrorText, <<"Error counting emails">>)
                       /\ net[t][loc[t].job].st = "raised"
                       /\ ~DateLeq(loc[t].cur, x.at)

\* C5 witness: a count whose first day timed out returned the table with that
\* day's Timeout row and a later day's count.
C5_Witness ==
    \E t \in Tasks :
        /\ Done(t)
        /\ \E x \in timedOut[t] : x.running /\ x.op = "await_count" /\ TimeoutRowFor(t, x.at)
        /\ \E i \in 1..Len(result[t].data) : result[t].data[i].kind = "count"

\* C6: the step in which a deadline expires leaves every running worker call
\* of the invocation running.
C6_TimeoutLeavesWorkerRunning ==
    [][\A t \in Tasks :
          timedOut'[t] # timedOut[t] =>
              \A k \in Calls(t) : net[t][k].st = "running" => net'[t][k].st = "running"]_vars

\* C6 witness: send-email returned its timeout message while send_sync was
\* still running, and the message was delivered afterwards.
C6_Witness ==
    \E t \in Tasks :
        /\ Done(t)
        /\ result[t] = Text(SendTimeoutText, <<>>)
        /\ \E x \in timedOut[t] : x.op = "await_send" /\ x.running
        /\ Delivered(t)

\* C7: send-email without recipients returns the recipient-required text at
\* once and makes no network call, neither on the submission nor on the
\* retrieval side.
C7_EmptyToNoNetwork ==
    \A t \in Tasks :
        (name[t] = "send-email" /\ args[t].to = <<>>) =>
            /\ Done(t)
            /\ result[t] = Text(RecipientRequiredText, <<>>)
            /\ net[t] = <<>>
            /\ smtp[t] = <<>>
            /\ MailOf(t) = 0

\* C7 witness: a send-email invocation without recipients has returned.
C7_Witness ==
    \E t \in Tasks : name[t] = "send-email" /\ args[t].to = <<>> /\ Done(t)

\* C8 (as claimed): get-email-content without an email_id returns the
\* missing-id text and has made no network call.
C8_ValidationBeforeNetwork ==
    \A t \in Tasks :
        (Done(t) /\ name[t] = "get-email-content" /\ args[t].email_id = "") =>
            /\ result[t] = Text(EmailIdRequiredText, <<>>)
            /\ net[t] = <<>>

GivenDatesValid(a) ==
    /\ a.start_date = NoDate \/ ValidDateString(a.start_date)
    /\ a.end_date = NoDate \/ ValidDateString(a.end_date)

Selected(t) == \E k \in Calls(t) : net[t][k].op = "select" /\ net[t][k].st = "returned"

\* C9 (as claimed): in each of the four combinations of given and omitted
\* dates, search-emails on a selected mailbox issues the search, with a date
\* predicate that starts at the given start date or at now - 7 days.
C9_DefaultsApplied ==
    \A t \in Tasks :
        (name[t] = "search-emails" /\ Selected(t) /\ GivenDatesValid(args[t])) =>
            \E k \in Calls(t) :
                /\ net[t][k].op = "search"
                /\ net[t][k].arg.op \in {"ON", "SINCE"}
                /\ net[t][k].arg.d1 =
                       IF args[t].start_date = NoDate
                       THEN Strftime(AddDays(today, -7))
                       ELSE Strftime(args[t].start_date)

\* date.toordinal(): the number of the day, counted from 0001-01-01.
RECURSIVE DaysBeforeMonth(_, _)
DaysBeforeMonth(y, m) ==
    IF m = 1 THEN 0 ELSE DaysBeforeMonth(y, m - 1) + DaysInMonth(y, m - 1)

Ordinal(dt) ==
    LET y == dt.y - 1
    IN  365 * y + (y \div 4) - (y \div 100) + (y \div 400) + DaysBeforeMonth(dt.y, dt.m) + dt.d

\* The day a "dd-Mon-yyyy" text names.
TextDay(f) == Date(f[3], CHOOSE m \in 1..12 : MonthAbbr[m] = f[2], f[1])

\* C10: with both dates given and valid, the search is issued with ON "<start>"
\* when start equals end, and with SINCE "<start>" BEFORE "<end + 1 day>"
\* when start is before end.
C10_ExplicitDates ==
    \A t \in Tasks :
        LET a == args[t] IN
        (/\ name[t] = "search-emails" /\ Selected(t)
         /\ a.start_date # NoDate /\ a.end_date # NoDate /\ GivenDatesValid(a)
         /\ DateLeq(a.start_date, a.end_date)) =>
            \E k \in Calls(t) :
                LET c == net[t][k].arg IN
                /\ net[t][k].op = "search"
                /\ c.d1 = <<a.start_date.d, MonthAbbr[a.start_date.m], a.start_date.y>>
                /\ IF a.start_date = a.end_date
                   THEN c.op = "ON" /\ c.d2 = NoDateText
                   ELSE /\ c.op = "SINCE"
                        /\ c.d2[2] \in Range(MonthAbbr)
                        /\ ValidDateString(TextDay(c.d2))
                        /\ Ordinal(TextDay(c.d2)) = Ordinal(a.end_date) + 1

\* C10 witness: a search over 2024-02-28 .. 2024-02-29 was issued with
\* SINCE "28-Feb-2024" BEFORE "01-Mar-2024".
C10_Witness ==
    \E t \in Tasks : \E k \in Calls(t) :
        /\ net[t][k].op = "search"
        /\ args[t].start_date = Date(2024, 2, 28)
        /\ args[t].end_date = Date(2024, 2, 29)
        /\ net[t][k].arg.op = "SINCE"
        /\ net[t][k].arg.d1 = <<28, "Feb", 2024>>
        /\ net[t][k].arg.d2 = <<1, "Mar", 2024>>


FetchCalls(t) == {k \in Calls(t) : net[t][k].op = "fetch"}
SearchCalls(t) == {k \in Calls(t) : net[t][k].op = "search"}
Min(a, b) == IF a < b THEN a ELSE b

\* C11: whatever number of ids the search reports, search-emails issues at
\* most MAX_EMAILS fetches, for the ids in the order reported, and the table
\* it returns has the first min(n, MAX_EMAILS) ids, in that order.
C11_AtMostMaxEmails ==
    \A t \in Tasks :
        name[t] = "search-emails" =>
            /\ Cardinality(FetchCalls(t)) <= MAX_EMAILS
            /\ \A k \in FetchCalls(t) :
                   net[t][k].arg = Cardinality({j \in FetchCalls(t) : j <= k})
            /\ (Done(t) /\ result[t].text = FoundText) =>
                   \E s \in SearchCalls(t) :
                       /\ Len(result[t].data) = Min(Len(net[t][s].ids), MAX_EMAILS)
                       /\ \A i \in 1..Len(result[t].data) :
                              result[t].data[i].id = net[t][s].ids[i]

\* C11 witness: the search reported more than MAX_EMAILS ids and the table
\* returned has MAX_EMAILS rows.
C11_Witness ==
    \E t \in Tasks :
        /\ Done(t) /\ result[t].text = FoundText
        /\ Len(result[t].data) = MAX_EMAILS
        /\ \E s \in SearchCalls(t) : Len(net[t][s].ids) > MAX_EMAILS


\* A count-daily-emails invocation over a range of valid dates, start <= end,
\* on a session that was opened and authenticated.
CountsRange(t) ==
    /\ name[t] = "count-daily-emails"
    /\ args[t].start_date # NoDate /\ ValidDateString(args[t].start_date)
    /\ args[t].end_date # NoDate /\ ValidDateString(args[t].end_date)
    /\ Ordinal(args[t].start_date) <= Ordinal(args[t].end_date)
    /\ \E k \in Calls(t) : net[t][k].op = "login" /\ net[t][k].st = "returned"

RangeDays(t) == Ordinal(args[t].end_date) - Ordinal(args[t].start_date) + 1

\* The i-th count query of the invocation is the one of the i-th date.
QueriesAscending(t) ==
    \A k \in SearchCalls(t) :
        LET i == Cardinality({j \in SearchCalls(t) : j <= k})
        IN  /\ net[t][k].arg.op = "ON"
            /\ Ordinal(TextDay(net[t][k].arg.d1)) = Ordinal(args[t].start_date) + i - 1

\* The table has one row per date of the range, ascending.
RowsAscending(t, rows) ==
    \A i \in 1..Len(rows) :
        \E dt \in {d \in {TextDay(net[t][k].arg.d1) : k \in SearchCalls(t)} :
                       Ordinal(d) = Ordinal(args[t].start_date) + i - 1} :
            rows[i].date = StrftimeIso(dt)

\* C12 (as claimed): in every execution, count-daily-emails over an N-day
\* range, start <= end, issues exactly N count queries, one per date in
\* ascending order, and returns a table of exactly N rows.
C12_ExactlyNQueries ==
    \A t \in Tasks :
        (Done(t) /\ CountsRange(t)) =>
            /\ Cardinality(SearchCalls(t)) = RangeDays(t)
            /\ QueriesAscending(t)
            /\ result[t].text = CountsText
            /\ Len(result[t].data) = RangeDays(t)
            /\ RowsAscending(t, result[t].data)

\* The count query k raised and the invocation, whose deadline for that day
\* had not expired, resumed with the exception.
CountRaised(t, k) ==
    /\ net[t][k].st = "raised"
    /\ \A x \in timedOut[t] :
           ~(x.op = "await_count" /\ x.at = TextDay(net[t][k].arg.d1))

\* C12 (amended): as claimed in every execution in which no count query
\* raises before its deadline; a query that does is the last one issued and
\* the invocation returns the generic error text instead of the table.
C12_ExactlyNQueriesAmended ==
    \A t \in Tasks :
        (Done(t) /\ CountsRange(t)) =>
            /\ QueriesAscending(t)
            /\ Cardinality(SearchCalls(t)) <= RangeDays(t)
            /\ IF \E k \in SearchCalls(t) : CountRaised(t, k)
               THEN /\ result[t] = Text(ErrorText, <<"Error counting emails">>)
                    /\ \A k \in SearchCalls(t) :
                           CountRaised(t, k) => \A j \in SearchCalls(t) : j <= k
               ELSE /\ Cardinality(SearchCalls(t)) = RangeDays(t)
                    /\ result[t].text = CountsText
                    /\ Len(result[t].data) = RangeDays(t)
                    /\ RowsAscending(t, result[t].data)

\* C12 witness: a three-day range returned a table of three rows after three
\* queries.
C12_Witness ==
    \E t \in Tasks :
        /\ Done(t) /\ CountsRange(t) /\ RangeDays(t) = 3
        /\ result[t].text = CountsText /\ Len(result[t].data) = 3
        /\ Cardinality(SearchCalls(t)) = 3


\* The i-th count query of the invocation and the date it asks for.
NthSearch(t, i) ==
    CHOOSE k \in SearchCalls(t) : Cardinality({j \in SearchCalls(t) : j <= k}) = i
QueryDay(t, k) == TextDay(net[t][k].arg.d1)

\* The dates of the invocation whose count deadline expired.
TimedOutDays(t) == {x.at : x \in {y \in timedOut[t] : y.op = "await_count"}}

\* The query for the date after d was issued, when d is not the last date.
NextDayQueried(t, d) ==
    Ordinal(d) < Ordinal(args[t].end_date) =>
        \E k \in SearchCalls(t) : Ordinal(QueryDay(t, k)) = Ordinal(d) + 1

\* The rows collected so far: the row of a date is 'Timeout' exactly when the
\* deadline of that date expired, and is the count of that date's query
\* otherwise.
RowsKeepCounts(t, rows) ==
    \A i \in 1..Len(rows) :
        LET k == NthSearch(t, i)
        IN  /\ rows[i].date = StrftimeIso(QueryDay(t, k))
            /\ IF QueryDay(t, k) \in TimedOutDays(t)
               THEN rows[i].kind = "Timeout"
               ELSE rows[i].kind = "count" /\ rows[i].n = Len(net[t][k].ids)

\* C13 (as claimed): a deadline expiry on the query for date d puts 'Timeout'
\* in the row of d only: the rows of the earlier dates keep their counts and
\* the queries for every later date of the range are still issued.
C13_TimeoutRowOnly ==
    \A t \in Tasks :
        (Done(t) /\ CountsRange(t)) =>
            \A d \in TimedOutDays(t) :
                /\ result[t].text = CountsText
                /\ TimeoutRowFor(t, d)
                /\ RowsKeepCounts(t, result[t].data)
                /\ \A k \in 1..RangeDays(t) :
                       Ordinal(d) + k <= Ordinal(args[t].end_date) =>
                           \E q \in SearchCalls(t) : Ordinal(QueryDay(t, q)) = Ordinal(d) + k

\* C13 (amended): the expiry appends the 'Timeout' row of d to the rows
\* collected, which keep their counts, and the query for the next date is
\* issued at once. The table returned has 'Timeout' in the row of d only
\* and a row for every later date, unless the query of a later date raises,
\* and then the invocation returns the generic error text and drops the rows.
C13_TimeoutRowOnlyAmended ==
    \A t \in Tasks :
        CountsRange(t) =>
            /\ RowsKeepCounts(t, loc[t].rows)
            /\ \A d \in TimedOutDays(t) :
                /\ \E i \in 1..Len(loc[t].rows) : loc[t].rows[i] = TimeoutRow(d)
                /\ NextDayQueried(t, d)
                /\ Done(t) =>
                    \/ /\ result[t] = Text(CountsText, loc[t].rows)
                       /\ Len(result[t].data) = RangeDays(t)
                       /\ Cardinality(SearchCalls(t)) = RangeDays(t)
                    \/ /\ result[t].text = ErrorText
                       /\ \E k \in SearchCalls(t) :
                              CountRaised(t, k) /\ Ordinal(QueryDay(t, k)) > Ordinal(d)

\* C13 witness: in a three-day range the deadline of the second date expired
\* with the query running, and the table returned has the count of the first
\* date, 'Timeout' for the second and the count of the third.
C13_Witness ==
    \E t \in Tasks :
        /\ Done(t) /\ CountsRange(t) /\ result[t].text = CountsText
        /\ Len(result[t].data) = 3
        /\ result[t].data[1].kind = "count"
        /\ result[t].data[2].kind = "Timeout"
        /\ result[t].data[3].kind = "count"
        /\ \E x \in timedOut[t] : x.op = "await_count" /\ x.running


\* A get-email-content invocation that resumed with the message its fetch
\* returned, and that message.
Fetched(t) ==
    /\ Done(t) /\ name[t] = "get-email-content" /\ timedOut[t] = {}
    /\ \E k \in FetchCalls(t) : net[t][k].st = "returned"
FetchedMsg(t) == net[t][CHOOSE k \in FetchCalls(t) : net[t][k].st = "returned"].msg

PlainParts(msg) == {i \in 1..Len(Walk(msg)) : Walk(msg)[i].ctype = "text/plain"}
HtmlParts(msg) == {i \in 1..Len(Walk(msg)) : Walk(msg)[i].ctype = "text/html"}
First(S) == CHOOSE i \in S : \A j \in S : i <= j

\* C14: for every multipart message, the content returned is the text of the
\* first text/plain part in document order when there is one, whatever
\* precedes it, and the text of a text/html part only when there is none.
C14_PlainPreferred ==
    \A t \in Tasks :
        (Fetched(t) /\ IsMultipart(FetchedMsg(t))) =>
            /\ result[t].text = ContentText
            /\ IF PlainParts(FetchedMsg(t)) # {}
               THEN result[t].data[1] = Walk(FetchedMsg(t))[First(PlainParts(FetchedMsg(t)))].text
               ELSE \/ result[t].data[1] = ""
                    \/ \E i \in HtmlParts(FetchedMsg(t)) :
                           result[t].data[1] = Walk(FetchedMsg(t))[i].text

\* C15: a part that does not decode counts as the empty string and the
\* traversal goes on: the invocation still returns the content block.
C15_DecodeFailureTolerated ==
    \A t \in Tasks :
        Fetched(t) => result[t].text = ContentText


\* The sender address of a send-email invocation, by precedence.
ExpectedFrom(t) ==
    CASE args[t].sender_email # "" -> args[t].sender_email
      [] args[t].sender_email = "" /\ defaultEmail # "" -> defaultEmail
      [] OTHER -> EMAIL_USERNAME

SmtpCalls(t, op) == {k \in 1..Len(smtp[t]) : smtp[t][k].op = op}

\* C16: the From header and the envelope sender of a send-email are the
\* sender_email argument when given, else the default send-as address when
\* configured, else the authenticating account; the login of the submission
\* is always made with the authenticating account and its secret.
C16_SenderPrecedence ==
    \A t \in Tasks :
        (name[t] = "send-email" /\ args[t].to # <<>>) =>
            /\ loc[t].from[2] = ExpectedFrom(t)
            /\ \A k \in SmtpCalls(t, "send_message") : smtp[t][k].arg[1] = ExpectedFrom(t)
            /\ \A k \in SmtpCalls(t, "login") :
                   smtp[t][k].arg = <<EMAIL_USERNAME, EMAIL_PASSWORD>>
            /\ (Done(t) /\ result[t].text = SendOkText) => result[t].data[2] = ExpectedFrom(t)

\* C16 witness: a message was sent with the sender_email override as its
\* sender after a login with the authenticating account, a default send-as
\* address being configured.
C16_Witness ==
    \E t \in Tasks :
        /\ Done(t) /\ result[t].text = SendOkText
        /\ args[t].sender_email = "alias@x" /\ defaultEmail = "default@x"
        /\ \E k \in SmtpCalls(t, "send_message") :
               smtp[t][k].arg[1] = "alias@x" /\ smtp[t][k].st = "returned"
        /\ \E k \in SmtpCalls(t, "login") : smtp[t][k].arg[1] = EMAIL_USERNAME

\* send_message of the invocation reported the recipients rej as refused.
Refused(t, rej) ==
    /\ rej # {}
    /\ \E k \in SmtpCalls(t, "send_message") : smtp[t][k].rejected = rej

PartialFailure(rej) == Text(SendFailedText, <<RejectedText, rej>>)

WorkerCalls(t) == {k \in Calls(t) : net[t][k].on = "worker"}

\* C18: within one search-emails invocation the search and the fetches run
\* one after the other: a fetch is issued only when the search has returned
\* and every earlier fetch has completed, so at most one call is outstanding.
C18_Sequential ==
    \A t \in Tasks :
        name[t] = "search-emails" =>
            /\ \A k \in FetchCalls(t) :
                   /\ \E s \in SearchCalls(t) : s < k /\ net[t][s].st = "returned"
                   /\ \A j \in WorkerCalls(t) : j < k => net[t][j].st # "running"
            /\ Cardinality({k \in WorkerCalls(t) : net[t][k].st = "running"}) <= 1

\* C18 witness: the second fetch of a search-emails invocation is running,
\* the search and the first fetch having returned.
C18_Witness ==
    \E t \in Tasks :
        /\ name[t] = "search-emails"
        /\ \E j, k \in FetchCalls(t) :
               j < k /\ net[t][j].st = "returned" /\ net[t][k].st = "running"


\* The sessions an invocation opened: those of its connects that returned.
Opened(t) ==
    {net[t][c].sess : c \in {k \in Calls(t) : net[t][k].op = "connect" /\ net[t][k].st = "returned"}}

\* C19: under any interleaving of two invocations, every command of a
\* read-path invocation, those of its abandoned worker calls included, is
\* issued on the one session the invocation opened, and on no session
\* another invocation opened.
C19_OwnSessionOnly ==
    \A t \in Tasks :
        ReadPath(t) =>
            /\ Cardinality(Opened(t)) <= 1
            /\ \A k \in Calls(t) :
                   net[t][k].sess # 0 =>
                       /\ net[t][k].sess \in Opened(t)
                       /\ \A u \in Tasks \ {t} : net[t][k].sess \notin Opened(u)

\* C19 witness: two read-path invocations hold different sessions; one has
\* returned on its deadline and its abandoned call completed while the other
\* is suspended on a call of its own.
C19_Witness ==
    \E t \in Tasks : \E u \in Tasks \ {t} :
        /\ ReadPath(t) /\ ReadPath(u)
        /\ Opened(t) # {} /\ Opened(u) # {} /\ Opened(t) # Opened(u)
        /\ Done(t) /\ timedOut[t] # {}
        /\ \E k \in WorkerCalls(t) : net[t][k].st = "returned"
        /\ pc[u] \in {"await_search", "await_fetch", "await_count"}
        /\ \E k \in WorkerCalls(u) : net[u][k].st = "running"


ReleaseCalls(t) == {k \in Calls(t) : net[t][k].op \in {"close", "logout"}}

\* C20: whatever close and logout do in the finally clause, and when there
\* is no session to release, the caller receives the value the return
\* statement evaluated, for every tool and every outcome.
C20_ReleaseNeverChangesResult ==
    \A t \in Tasks :
        Done(t) =>
            /\ result[t].type = primary[t].type
            /\ result[t].text = primary[t].text
            /\ result[t].data = primary[t].data

\* C20 witness: a search-emails invocation whose close raised returned the
\* table of the messages found.
C20_Witness ==
    \E t \in Tasks :
        /\ Done(t) /\ result[t].text = FoundText /\ primary[t].text = FoundText
        /\ \E k \in ReleaseCalls(t) : net[t][k].op = "close" /\ net[t][k].st = "raised"


\* C21: at most one command executes on a session at a time: no command is
\* started on a session while an earlier command on that session is still
\* running on its worker, the deadline of that command having expired or not.
\* The log keeps the order of issue and a call never returns to "running",
\* so a running call followed by a call on its session was running when the
\* later one started.
C21_OneCommandPerSession ==
    \A t \in Tasks :
        \A j \in Calls(t) : \A k \in Calls(t) :
            (j < k /\ net[t][j].sess # 0 /\ net[t][j].sess = net[t][k].sess) =>
                net[t][j].st # "running"

====
